---- MODULE Spec2Model ----
(***************************************************************************)
(* Elevator safety self-inspection: the checklist executor                 *)
(* (SafetyChecklist.run_inspection), the hardware handle it calls          *)
(* (ElevatorInterface over SensorManager, or the unit test's mock) and the *)
(* safety analyzer (SafetyAnalyzer.analyze).                               *)
(*                                                                         *)
(* Python values are records [t, n, s]: t is the type tag ("none", "num",  *)
(* "bool", "str"), n the number (a bool is 0 or 1, as in Python), s the    *)
(* text.  A dict with optional keys is a record with a field `keys`, the   *)
(* set of optional keys the dict holds; a field whose key is absent holds  *)
(* a filler that no definition reads.  Floating-point readings and bounds  *)
(* are integers; datetime.now() timestamps are left out of the results.    *)
(***************************************************************************)
EXTENDS Integers, Sequences, FiniteSets, TLC

VARIABLES checklist_items, hw, idx, results, calls, pc, analysis,
          results2, differ, value, thresholds, status,
          safety_thresholds, safety_thresholds2, analysis2,
          interface_config, ret,
          disk, conn, saved, fetched

\* the state of an inspection and of the two pure functions on their own
inspvars == <<checklist_items, hw, idx, results, calls, pc, analysis,
              results2, differ, value, thresholds, status>>

\* the two SafetyAnalyzer instances and the second one's verdict
anvars == <<safety_thresholds, safety_thresholds2, analysis2>>

\* the ElevatorInterface on its own: its sensor configuration and what its
\* last operation returned
ifvars == <<interface_config, ret>>

\* the InspectionDatabase: the committed tables, the tables as the open
\* connection sees them, and what the last save_inspection and the last
\* get_inspection returned or raised
dbvars == <<disk, conn, saved, fetched>>

\* what the actions of an inspection leave alone
extra == <<anvars, ifvars, dbvars>>

vars == <<inspvars, extra>>

(* ------------------------------ bounds -------------------------------- *)

\* longest checklist run_inspection is given
MaxItems == 3
\* longest checklist of the paired runs (two runs differing in one failure)
MaxPairItems == 2
\* longest checklist with items that lack a key
MaxFaultyItems == 2
\* longest results sequence analyze is given directly
MaxResults == 3
\* threshold bounds range over 0..MaxBound, readings over -1..MaxBound+1
MaxBound == 2
\* most calls of save_inspection on one database
MaxSaves == 2
\* JSON numerals are read back over -MaxNumber..MaxNumber
MaxNumber == 40

(* --------------------------- Python values ---------------------------- *)

NoneV == [t |-> "none", n |-> 0, s |-> ""]
Num(k) == [t |-> "num", n |-> k, s |-> ""]
Bool(b) == [t |-> "bool", n |-> IF b THEN 1 ELSE 0, s |-> ""]
Str(x) == [t |-> "str", n |-> 0, s |-> x]

\* a variant that takes every value other than None as true
NotNone(v) == v.t # "none"

\* bool(value): the truth value Python's `if value` uses
Truthy(v) ==
    CASE v.t = "none" -> FALSE
      [] v.t = "str" -> v.s # ""
      [] OTHER -> v.n # 0

\* whether `value < bound` / `value > bound` is defined for a numeric bound
Comparable(v) == v.t \in {"num", "bool"}

\* str(TypeError) of an unsupported comparison with an int bound
TypeErrorText(op, v) ==
    CASE op = "<" /\ v.t = "none" ->
            "'<' not supported between instances of 'NoneType' and 'int'"
      [] op = ">" /\ v.t = "none" ->
            "'>' not supported between instances of 'NoneType' and 'int'"
      [] op = "<" ->
            "'<' not supported between instances of 'str' and 'int'"
      [] OTHER ->
            "'>' not supported between instances of 'str' and 'int'"

\* str(KeyError(key))
KeyErrorText(key) ==
    CASE key = "sensor_id" -> "'sensor_id'"
      [] key = "component_id" -> "'component_id'"
      [] OTHER -> "'thresholds'"

(* ------------------- the outcome of one hardware call ------------------ *)

Returned(v) == [raised |-> FALSE, val |-> v, msg |-> ""]
Raised(m) == [raised |-> TRUE, val |-> NoneV, msg |-> m]

(* ------------------ SensorManager / ElevatorInterface ------------------ *)

\* a dict with no key
EmptyDict == [k \in {} |-> ""]

\* hardware_config['sensors'] of the default configuration (the two sensor
\* ids the checklist below reads), an empty one (hardware_config.get's
\* default {}), and one whose temp_motor entry lacks its 'type'
SensorConfigs ==
    { [temp_motor |-> [keys |-> {"type"}, type |-> "temperature"],
       door_sensor |-> [keys |-> {"type"}, type |-> "door_sensor"]],
      EmptyDict,
      [temp_motor |-> [keys |-> {}, type |-> ""],
       door_sensor |-> [keys |-> {"type"}, type |-> "door_sensor"]] }

\* a variant that reports success whatever happened to the sensors
ConnectSensorsOptimistic(sensor_config) ==
    LET ok == {sid \in DOMAIN sensor_config : "type" \in sensor_config[sid].keys}
    IN [success |-> TRUE,
        connected_sensors |-> [sid \in ok |-> sensor_config[sid].type]]

\* SensorManager.connect_sensors: config['type'] of an entry without 'type'
\* raises KeyError, which is caught: that sensor is not registered and the
\* call returns False
ConnectSensors(sensor_config) ==
    LET ok == {sid \in DOMAIN sensor_config : "type" \in sensor_config[sid].keys}
    IN [success |-> ok = DOMAIN sensor_config,
        connected_sensors |-> [sid \in ok |-> sensor_config[sid].type]]

\* ElevatorInterface.__init__ with _connect: connected = sensor_success
NewElevatorInterface(sensor_config) ==
    LET c == ConnectSensors(sensor_config)
    IN [kind |-> "interface",
        connected |-> c.success,
        connected_sensors |-> c.connected_sensors]

\* the unit test's MagicMock: every call returns or raises as configured
MockElevator ==
    [kind |-> "mock", connected |-> TRUE, connected_sensors |-> EmptyDict]

\* the values the _simulate_*_reading methods can return, by sensor type
\* (base + random() * variation with random() in [0, 1): the ends of the
\* range, in whole units); an unknown sensor type reads 0
SimulatedReadings(type) ==
    CASE type = "temperature" -> {Num(35), Num(49)}
      [] type = "pressure" -> {Num(500), Num(699)}
      [] type = "vibration" -> {Num(2), Num(4)}
      [] type = "speed" -> {Num(1), Num(2)}
      [] type = "weight" -> {Num(0), Num(999)}
      [] type = "door_sensor" -> {Bool(TRUE), Bool(FALSE)}
      [] type = "emergency_button" -> {Bool(TRUE), Bool(FALSE)}
      [] OTHER -> {Num(0)}

\* SensorManager.get_reading: None for a sensor that is not registered
GetReading(connected_sensors, sensor_id) ==
    IF sensor_id \notin DOMAIN connected_sensors
    THEN {NoneV}
    ELSE SimulatedReadings(connected_sensors[sensor_id])

\* what the mock's get_sensor_reading is configured to return in the tests
\* (30.0) and in the specification's scenarios (65, 90), a reading between
\* the upper warning and critical bounds of motor_temp (80), None, and a
\* text reading (the str of get_sensor_reading's declared return type)
MockReadings == {Num(30), Num(65), Num(80), Num(90), NoneV, Str("n/a")}

\* the mock's side_effect = Exception("Sensor error")
MockErrors == {"Sensor error"}

\* ElevatorInterface.get_sensor_reading: the outcomes one call can have
GetSensorReading(h, sensor_id) ==
    IF h.kind = "mock"
    THEN {Returned(v) : v \in MockReadings} \cup {Raised(m) : m \in MockErrors}
    ELSE IF ~h.connected
         THEN {Returned(NoneV)}
         ELSE {Returned(v) : v \in GetReading(h.connected_sensors, sensor_id)}

\* ElevatorInterface.test_mechanical_component: False when disconnected,
\* else random.random() > 0.1
TestMechanicalComponent(h, component_id) ==
    IF h.kind = "mock"
    THEN {Returned(Bool(TRUE)), Returned(Bool(FALSE))}
            \cup {Raised(m) : m \in MockErrors}
    ELSE IF ~h.connected
         THEN {Returned(Bool(FALSE))}
         ELSE {Returned(Bool(TRUE)), Returned(Bool(FALSE))}

\* the hardware handles a run is given
Handles == {MockElevator} \cup {NewElevatorInterface(c) : c \in SensorConfigs}

(* --------------------------- checklist items --------------------------- *)

ThresholdKeys == {"min_critical", "max_critical", "min_warning", "max_warning"}

\* one checklist item: `keys` holds the optional keys the dict has
Item(id, name, type, keys, sensor_id, component_id, th, category, criticality) ==
    [id |-> id, name |-> name, type |-> type, keys |-> keys,
     sensor_id |-> sensor_id, component_id |-> component_id,
     thresholds |-> th, category |-> category, criticality |-> criticality]

\* items of the default configuration (motor_temp, door_operation,
\* brake_test, cables_visual), a sensor item with an empty thresholds
\* mapping and neither category nor criticality, and an item of a type the
\* executor does not know
MotorTemp ==
    Item("motor_temp", "Motor Temperature", "sensor",
         {"sensor_id", "thresholds", "category", "criticality"},
         "temp_motor", "",
         [min_warning |-> 50, max_warning |-> 70, max_critical |-> 85],
         "mechanical", "high")
DoorOperation ==
    Item("door_operation", "Door Operation", "sensor",
         {"sensor_id", "category", "criticality"},
         "door_sensor", "", EmptyDict, "safety", "critical")
CabinTemp ==
    Item("cabin_temp", "Cabin Temperature", "sensor",
         {"sensor_id", "thresholds"},
         "temp_cabin", "", EmptyDict, "", "")
BrakeTest ==
    Item("brake_test", "Emergency Brake Test", "mechanical",
         {"component_id", "category", "criticality"},
         "", "emergency_brake", EmptyDict, "safety", "critical")
CablesVisual ==
    Item("cables_visual", "Cables Visual Inspection", "visual",
         {"category", "criticality"},
         "", "", EmptyDict, "mechanical", "critical")
ManualCheck ==
    Item("manual_check", "Manual Check", "manual",
         {"category", "criticality"},
         "", "", EmptyDict, "general", "normal")

ItemSet == {MotorTemp, DoorOperation, CabinTemp, BrakeTest, CablesVisual,
            ManualCheck}

\* the mark of a key the item's dict does not have, for the keys 'id',
\* 'name' and 'type'
Absent == "<absent>"

\* the item without the key `key`, one of 'id', 'name' and 'type'
Without(item, key) == [item EXCEPT ![key] = Absent]

\* key in item, for 'id', 'name' and 'type'
Carries(item, key) == item[key] # Absent

\* a sensor item without 'sensor_id', a mechanical item without
\* 'component_id', and items without 'name', 'type' or 'id'
MotorTempNoSensor == [MotorTemp EXCEPT !.keys = @ \ {"sensor_id"}]
BrakeTestNoComponent == [BrakeTest EXCEPT !.keys = @ \ {"component_id"}]
FaultyItems ==
    { MotorTempNoSensor, BrakeTestNoComponent,
      Without(MotorTemp, "name"), Without(BrakeTest, "type"),
      Without(MotorTemp, "id"), Without(CablesVisual, "id") }

\* all sequences over S of length at most n
SeqsUpTo(S, n) == UNION {[1..k -> S] : k \in 0..n}

(* ------------------------- SafetyChecklist ---------------------------- *)

\* a variant whose comparisons are not strict
ViolatesOrEqual(v, op, bound) == IF op = "<" THEN v.n <= bound ELSE v.n >= bound

\* `value < thresholds[key]` (op "<") or `value > thresholds[key]` (op ">")
\* for a value Python can compare with a number
Violates(v, op, bound) == IF op = "<" THEN v.n < bound ELSE v.n > bound

\* SafetyChecklist._evaluate_sensor_reading: the four tests in the order of
\* the code; a test whose key is absent is skipped, and the first test whose
\* key is present raises TypeError when the value is not comparable
EvaluateSensorReading(v, th) ==
    LET Has(k) == k \in DOMAIN th
        Ok(s) == [raised |-> FALSE, status |-> s, msg |-> ""]
        Err(op) == [raised |-> TRUE, status |-> "", msg |-> TypeErrorText(op, v)]
    IN  IF Has("min_critical") /\ ~Comparable(v) THEN Err("<")
        ELSE IF Has("min_critical") /\ Violates(v, "<", th["min_critical"])
             THEN Ok("fail")
        ELSE IF Has("max_critical") /\ ~Comparable(v) THEN Err(">")
        ELSE IF Has("max_critical") /\ Violates(v, ">", th["max_critical"])
             THEN Ok("fail")
        ELSE IF Has("min_warning") /\ ~Comparable(v) THEN Err("<")
        ELSE IF Has("min_warning") /\ Violates(v, "<", th["min_warning"])
             THEN Ok("warning")
        ELSE IF Has("max_warning") /\ ~Comparable(v) THEN Err(">")
        ELSE IF Has("max_warning") /\ Violates(v, ">", th["max_warning"])
             THEN Ok("warning")
        ELSE Ok("pass")

\* item.get(key, default)
ItemGet(item, key, default) ==
    IF key \in item.keys
    THEN (IF key = "category" THEN item.category ELSE item.criticality)
    ELSE default

\* the result dict built after a check that did not raise
Result(item, v, s) ==
    [item_id |-> item.id, name |-> item.name, type |-> item.type,
     value |-> v, status |-> s,
     category |-> ItemGet(item, "category", "general"),
     criticality |-> ItemGet(item, "criticality", "normal"),
     keys |-> {"category", "criticality"}, error |-> ""]

\* a variant whose except branch leaves the key 'error' out
ErrorResultNoMessage(item, m) ==
    [item_id |-> item.id, name |-> item.name, type |-> item.type,
     value |-> NoneV, status |-> "error",
     category |-> IF "category" \in item.keys THEN item.category ELSE "general",
     criticality |->
        IF "criticality" \in item.keys THEN item.criticality ELSE "normal",
     keys |-> {"category", "criticality"}, error |-> ""]

\* the result dict built by the except branch: status 'error', value None
\* and the key 'error' holding str(e)
ErrorResult(item, m) ==
    [item_id |-> item.id, name |-> item.name, type |-> item.type,
     value |-> NoneV, status |-> "error",
     category |-> ItemGet(item, "category", "general"),
     criticality |-> ItemGet(item, "criticality", "normal"),
     keys |-> {"category", "criticality", "error"}, error |-> m]

\* the hardware call one item makes, if it makes one: item['sensor_id'] and
\* item['component_id'] are read before the call, so an item without the key
\* raises KeyError and makes no call
CallOf(item) ==
    IF item.type = "sensor" /\ "sensor_id" \in item.keys
    THEN [fn |-> "get_sensor_reading", arg |-> item.sensor_id]
    ELSE IF item.type = "mechanical" /\ "component_id" \in item.keys
    THEN [fn |-> "test_mechanical_component", arg |-> item.component_id]
    ELSE [fn |-> "none", arg |-> ""]

\* a variant in which every item, whatever its type, calls the hardware
MakesCallAlways(item) == TRUE

\* whether the item's branch of the dispatch on item['type'] calls the
\* hardware handle
MakesCall(item) == CallOf(item).fn # "none"

\* the outcomes the call of `item` can have on handle h
CallOutcomes(h, item) ==
    IF CallOf(item).fn = "get_sensor_reading"
    THEN GetSensorReading(h, CallOf(item).arg)
    ELSE TestMechanicalComponent(h, CallOf(item).arg)

\* the outcome slot of an item that makes no call
NoOutcome == Returned(NoneV)

\* a variant that records an item of unknown type as passed
UnknownTypePasses == "pass"

\* status = "skipped", the status of an item of unknown type
UnknownTypeStatus == "skipped"

\* one iteration of the loop of run_inspection: the try block on `item`,
\* where o is the outcome of the item's hardware call, and the except branch
CheckItem(item, o) ==
    IF item.type = "sensor" THEN
        IF "sensor_id" \notin item.keys
        THEN ErrorResult(item, KeyErrorText("sensor_id"))
        ELSE IF o.raised THEN ErrorResult(item, o.msg)
        ELSE IF "thresholds" \notin item.keys
        THEN ErrorResult(item, KeyErrorText("thresholds"))
        ELSE LET e == EvaluateSensorReading(o.val, item.thresholds)
             IN  IF e.raised THEN ErrorResult(item, e.msg)
                 ELSE Result(item, o.val, e.status)
    ELSE IF item.type = "visual" THEN
        Result(item, Str("SIMULATED VISUAL INSPECTION"), "pass")
    ELSE IF item.type = "mechanical" THEN
        IF "component_id" \notin item.keys
        THEN ErrorResult(item, KeyErrorText("component_id"))
        ELSE IF o.raised THEN ErrorResult(item, o.msg)
        ELSE Result(item, o.val, IF Truthy(o.val) THEN "pass" ELSE "fail")
    ELSE Result(item, NoneV, UnknownTypeStatus)

\* whether the iteration on `item` raises KeyError out of run_inspection:
\* item['name'] is read before the try block, and the except branch reads
\* item['id'], item['name'] and item['type'] again
RaisesOut(item) ==
    ~Carries(item, "name") \/ ~Carries(item, "type") \/ ~Carries(item, "id")

\* whether that iteration reaches its hardware call before it raises
CallsBeforeRaising(item) ==
    Carries(item, "name") /\ Carries(item, "type") /\ MakesCall(item)

\* a variant that puts each new result at the front of the list
AppendResultFront(rs, item, o) == <<CheckItem(item, o)>> \o rs

\* results.append(result), in the try block and in the except branch alike
AppendResult(rs, item, o) == Append(rs, CheckItem(item, o))

\* a variant in which a call that raises ends the loop
NextIndexAbort(i, n, o) == IF o.raised THEN n + 1 ELSE i + 1

\* the for loop goes on to the next item whether the check raised or not
NextIndex(i, n, o) == i + 1

\* the entry of the call log for item number i
CallEntry(i, item, o) ==
    [item |-> i, fn |-> CallOf(item).fn, arg |-> CallOf(item).arg,
     raised |-> o.raised, val |-> o.val, msg |-> o.msg]

\* a variant in which a call that raises is made a second time
LogCallRetry(log, i, item, o) ==
    IF ~MakesCall(item) THEN log
    ELSE IF o.raised
    THEN Append(Append(log, CallEntry(i, item, o)), CallEntry(i, item, o))
    ELSE Append(log, CallEntry(i, item, o))

\* the calls made on the hardware handle once item number i is checked: the
\* item's one call, if its branch makes one, after those made before
LogCall(log, i, item, o) ==
    IF MakesCall(item) THEN Append(log, CallEntry(i, item, o)) ELSE log

(* --------------------------- SafetyAnalyzer ---------------------------- *)

\* result.get(key, default) for the two keys analyze reads with get
ResultGet(r, key, default) ==
    IF key \in r.keys
    THEN (IF key = "category" THEN r.category ELSE r.error)
    ELSE default

\* a variant that puts each new entry at the front of the list
ListAddFront(list, entry) == <<entry>> \o list

\* list.append(entry), as analyze adds an entry to one of its three lists
ListAdd(list, entry) == Append(list, entry)

\* the counters and lists before the loop over inspection_results
AnalyzeStart ==
    [critical_issues |-> 0, warnings |-> 0, passed |-> 0, errors |-> 0,
     critical_items |-> <<>>, warning_items |-> <<>>, error_items |-> <<>>]

\* the body of the loop over inspection_results, on one result
AnalyzeStep(acc, r) ==
    IF r.status = "fail" THEN
        [acc EXCEPT !.critical_issues = @ + 1,
                    !.critical_items = ListAdd(@,
                        [name |-> r.name, value |-> r.value,
                         category |-> ResultGet(r, "category", "general")])]
    ELSE IF r.status = "warning" THEN
        [acc EXCEPT !.warnings = @ + 1,
                    !.warning_items = ListAdd(@,
                        [name |-> r.name, value |-> r.value,
                         category |-> ResultGet(r, "category", "general")])]
    ELSE IF r.status = "pass" THEN
        [acc EXCEPT !.passed = @ + 1]
    ELSE IF r.status = "error" THEN
        [acc EXCEPT !.errors = @ + 1,
                    !.error_items = ListAdd(@,
                        [name |-> r.name,
                         error |-> ResultGet(r, "error", "Unknown error"),
                         category |-> ResultGet(r, "category", "general")])]
    ELSE acc

\* the loop: results i..Len(rs), in order
RECURSIVE AnalyzeLoop(_, _, _)
AnalyzeLoop(rs, i, acc) ==
    IF i > Len(rs) THEN acc ELSE AnalyzeLoop(rs, i + 1, AnalyzeStep(acc, rs[i]))

\* a variant that tests errors before warnings
ClassifyErrorsFirst(critical_issues, warnings, errors) ==
    [safety_level |->
        IF critical_issues > 0 THEN "critical"
        ELSE IF errors > 0 THEN "incomplete"
        ELSE IF warnings > 0 THEN "warning"
        ELSE "safe",
     summary |->
        IF critical_issues > 0 THEN "UNSAFE - Critical issues detected"
        ELSE IF errors > 0 THEN "INCOMPLETE - Inspection errors"
        ELSE IF warnings > 0 THEN "CAUTION - Warnings detected"
        ELSE "SAFE - All checks passed",
     action_required |->
        IF critical_issues > 0 THEN
           "Immediate maintenance required. Elevator should not be used until fixed."
        ELSE IF errors > 0 THEN
           "Some tests failed to complete. Re-inspection recommended."
        ELSE IF warnings > 0 THEN
           "Schedule maintenance soon to address warnings."
        ELSE "Regular maintenance schedule can be followed."]

\* the if/elif chain that determines the overall safety status
Classify(critical_issues, warnings, errors) ==
    IF critical_issues > 0 THEN
        [summary |-> "UNSAFE - Critical issues detected",
         action_required |->
           "Immediate maintenance required. Elevator should not be used until fixed.",
         safety_level |-> "critical"]
    ELSE IF warnings > 0 THEN
        [summary |-> "CAUTION - Warnings detected",
         action_required |-> "Schedule maintenance soon to address warnings.",
         safety_level |-> "warning"]
    ELSE IF errors > 0 THEN
        [summary |-> "INCOMPLETE - Inspection errors",
         action_required |->
           "Some tests failed to complete. Re-inspection recommended.",
         safety_level |-> "incomplete"]
    ELSE
        [summary |-> "SAFE - All checks passed",
         action_required |-> "Regular maintenance schedule can be followed.",
         safety_level |-> "safe"]

\* a variant whose denominator leaves the warnings out
ComplianceTotalNoWarnings(critical_issues, warnings, passed) ==
    critical_issues + passed

\* total_checks = critical_issues + warnings + passed, the denominator of
\* the compliance percentage
ComplianceTotal(critical_issues, warnings, passed) ==
    critical_issues + warnings + passed

\* a variant that counts an inspection with nothing to comply with as fully
\* compliant
CompliancePercentageVacuous(passed, total_checks) ==
    IF total_checks > 0
    THEN [num |-> passed * 100, den |-> total_checks]
    ELSE [num |-> 100, den |-> 1]

\* (passed / total_checks * 100) if total_checks > 0 else 0, as the exact
\* fraction num / den (the integer 0 is 0 / 1)
CompliancePercentage(passed, total_checks) ==
    IF total_checks > 0
    THEN [num |-> passed * 100, den |-> total_checks]
    ELSE [num |-> 0, den |-> 1]

\* a variant that returns the local variable total_checks
TotalChecksLocal(rs, total_checks) == total_checks

\* 'total_checks': len(inspection_results) of the returned dict, where
\* total_checks is the local variable holding the compliance denominator
TotalChecks(rs, total_checks) == Len(rs)

\* SafetyAnalyzer.analyze
Analyze(rs) ==
    LET acc == AnalyzeLoop(rs, 1, AnalyzeStart)
        c == Classify(acc.critical_issues, acc.warnings, acc.errors)
        total_checks ==
            ComplianceTotal(acc.critical_issues, acc.warnings, acc.passed)
    IN [summary |-> c.summary,
        safety_level |-> c.safety_level,
        action_required |-> c.action_required,
        critical_issues |-> acc.critical_issues,
        warnings |-> acc.warnings,
        passed |-> acc.passed,
        errors |-> acc.errors,
        compliance_percentage |-> CompliancePercentage(acc.passed, total_checks),
        critical_items |-> acc.critical_items,
        warning_items |-> acc.warning_items,
        error_items |-> acc.error_items,
        total_checks |-> TotalChecks(rs, total_checks)]

\* a variant that lets max_critical_issues critical issues pass as warnings
AnalyzeWithThresholds(self, rs) ==
    LET a == Analyze(rs)
    IN  IF a.critical_issues > 0 /\ a.critical_issues <= self.max_critical_issues
        THEN [a EXCEPT !.safety_level = "warning",
                       !.summary = "CAUTION - Warnings detected",
                       !.action_required =
                           "Schedule maintenance soon to address warnings."]
        ELSE a

\* analyzer.analyze(rs) on the instance `self`, which holds the
\* safety_thresholds given to __init__: analyze does not read them
SafetyAnalyzerAnalyze(self, rs) == Analyze(rs)

\* the value of `analysis` before analyze has returned
NoAnalysis ==
    [summary |-> "", safety_level |-> "", action_required |-> "",
     critical_issues |-> 0, warnings |-> 0, passed |-> 0, errors |-> 0,
     compliance_percentage |-> [num |-> 0, den |-> 1],
     critical_items |-> <<>>, warning_items |-> <<>>, error_items |-> <<>>,
     total_checks |-> 0]

\* inspection.safety_thresholds of the default configuration
DefaultSafetyThresholds == [max_critical_issues |-> 0, max_warnings |-> 2]

\* the ElevatorInterface's last return value before any operation
NoReturn == [op |-> "", arg |-> "", val |-> NoneV]

\* the two tables after _initialize_schema on a new file
EmptyStore == [inspections |-> <<>>, inspection_items |-> <<>>]

\* what save_inspection / get_inspection have returned before any call
NoSave == [call |-> 0, raised |-> FALSE, id |-> 0, msg |-> ""]
NoFetch == [raised |-> FALSE, id |-> 0, items |-> <<>>, msg |-> ""]

\* db = InspectionDatabase(db_path) on a new file
InitDatabase ==
    /\ disk = EmptyStore
    /\ conn = EmptyStore
    /\ saved = NoSave
    /\ fetched = NoFetch

\* the analyzers and the interface as an inspection has them: one analyzer
\* with the default thresholds, no second verdict
InitExtra ==
    /\ safety_thresholds = DefaultSafetyThresholds
    /\ safety_thresholds2 = DefaultSafetyThresholds
    /\ analysis2 = NoAnalysis
    /\ interface_config = EmptyDict
    /\ ret = NoReturn
    /\ InitDatabase

(* ---------------- an inspection: run_inspection, analyze --------------- *)

\* after SafetyChecklist(checklist_items) and the construction of the
\* hardware handle, at the top of the loop of run_inspection
Init ==
    /\ InitExtra
    /\ checklist_items \in SeqsUpTo(ItemSet, MaxItems)
    /\ hw \in Handles
    /\ idx = 1
    /\ results = <<>>
    /\ calls = <<>>
    /\ pc = "run"
    /\ analysis = NoAnalysis
    /\ results2 = <<>>
    /\ differ = {}
    /\ value = NoneV
    /\ thresholds = EmptyDict
    /\ status = ""

\* one iteration of `for item in self.checklist_items`
RunItem ==
    /\ pc = "run"
    /\ idx <= Len(checklist_items)
    /\ ~RaisesOut(checklist_items[idx])
    /\ LET item == checklist_items[idx]
       IN  \E o \in (IF MakesCall(item) THEN CallOutcomes(hw, item) ELSE {NoOutcome}) :
             /\ results' = AppendResult(results, item, o)
             /\ calls' = LogCall(calls, idx, item, o)
             /\ idx' = NextIndex(idx, Len(checklist_items), o)
    /\ UNCHANGED <<checklist_items, hw, pc, analysis, results2, differ,
                   value, thresholds, status>>
    /\ UNCHANGED extra

\* `return results`, the loop being over
Return ==
    /\ pc = "run"
    /\ idx > Len(checklist_items)
    /\ pc' = "returned"
    /\ UNCHANGED <<checklist_items, hw, idx, results, calls, analysis,
                   results2, differ, value, thresholds, status>>
    /\ UNCHANGED extra

\* analysis = analyzer.analyze(results)
DoAnalyze ==
    /\ pc = "returned"
    /\ analysis' = SafetyAnalyzerAnalyze(safety_thresholds, results)
    /\ pc' = "analyzed"
    /\ UNCHANGED <<checklist_items, hw, idx, results, calls,
                   results2, differ, value, thresholds, status>>
    /\ UNCHANGED extra

Next == RunItem \/ Return \/ DoAnalyze

Spec == Init /\ [][Next]_vars

(* --------- _evaluate_sensor_reading on its own (a pure function) ------- *)

\* every thresholds mapping: any subset of the four keys, any bounds
ThresholdMaps == UNION {[D -> 0..MaxBound] : D \in SUBSET ThresholdKeys}

\* readings below, at, between and above the bounds, the two booleans,
\* None and a text
EvalValues ==
    {Num(k) : k \in -1..(MaxBound + 1)}
        \cup {Bool(TRUE), Bool(FALSE), NoneV, Str("n/a")}

InitEval ==
    /\ InitExtra
    /\ value \in EvalValues
    /\ thresholds \in ThresholdMaps
    /\ status = ""
    /\ pc = "eval"
    /\ checklist_items = <<>>
    /\ hw = MockElevator
    /\ idx = 1
    /\ results = <<>>
    /\ calls = <<>>
    /\ analysis = NoAnalysis
    /\ results2 = <<>>
    /\ differ = {}

\* status = self._evaluate_sensor_reading(value, thresholds)
Evaluate ==
    /\ pc = "eval"
    /\ LET e == EvaluateSensorReading(value, thresholds)
       IN  status' = IF e.raised THEN "TypeError" ELSE e.status
    /\ pc' = "evaluated"
    /\ UNCHANGED <<checklist_items, hw, idx, results, calls, analysis,
                   results2, differ, value, thresholds>>
    /\ UNCHANGED extra

NextEval == Evaluate

SpecEval == InitEval /\ [][NextEval]_vars

(* ------------------ analyze on its own (a pure function) --------------- *)

\* results of every status: two of each status that analyze lists, so that
\* the order within a list shows; an error result without the keys 'error'
\* and 'category', as a caller other than run_inspection may pass
AnalyzerResults ==
    { Result(MotorTemp, Num(90), "fail"),
      Result(BrakeTest, Bool(FALSE), "fail"),
      Result(MotorTemp, Num(30), "warning"),
      Result(CabinTemp, Num(80), "warning"),
      Result(CablesVisual, Str("SIMULATED VISUAL INSPECTION"), "pass"),
      Result(BrakeTest, Bool(TRUE), "pass"),
      ErrorResult(MotorTemp, "Sensor error"),
      [ErrorResult(DoorOperation, "") EXCEPT !.keys = {"criticality"},
                                             !.category = ""],
      Result(ManualCheck, NoneV, "skipped") }

InitAnalyze ==
    /\ InitExtra
    /\ results \in SeqsUpTo(AnalyzerResults, MaxResults)
    /\ pc = "returned"
    /\ analysis = NoAnalysis
    /\ checklist_items = <<>>
    /\ hw = MockElevator
    /\ idx = 1
    /\ calls = <<>>
    /\ results2 = <<>>
    /\ differ = {}
    /\ value = NoneV
    /\ thresholds = EmptyDict
    /\ status = ""

NextAnalyze == DoAnalyze

SpecAnalyze == InitAnalyze /\ [][NextAnalyze]_vars

(* ----- two runs of one checklist that differ in failed calls only ------ *)

InitPair ==
    /\ InitExtra
    /\ checklist_items \in SeqsUpTo(ItemSet, MaxPairItems)
    /\ hw \in Handles
    /\ idx = 1
    /\ results = <<>>
    /\ results2 = <<>>
    /\ differ = {}
    /\ calls = <<>>
    /\ pc = "run"
    /\ analysis = NoAnalysis
    /\ value = NoneV
    /\ thresholds = EmptyDict
    /\ status = ""

\* the outcomes of one item's call in the two runs: the same outcome, or a
\* call that raises in the first run and returns in the second
OutcomePairs(h, item) ==
    LET O == IF MakesCall(item) THEN CallOutcomes(h, item) ELSE {NoOutcome}
    IN  {p \in O \X O : p[1] = p[2] \/ (p[1].raised /\ ~p[2].raised)}

\* one iteration of the loop in each of the two runs
RunItemPair ==
    /\ pc = "run"
    /\ idx <= Len(checklist_items)
    /\ LET item == checklist_items[idx]
       IN  \E p \in OutcomePairs(hw, item) :
             /\ results' = AppendResult(results, item, p[1])
             /\ results2' = AppendResult(results2, item, p[2])
             /\ differ' = IF p[1] = p[2] THEN differ ELSE differ \cup {idx}
             /\ calls' = LogCall(calls, idx, item, p[1])
             /\ idx' = NextIndex(idx, Len(checklist_items), p[1])
    /\ UNCHANGED <<checklist_items, hw, pc, analysis, value, thresholds, status>>
    /\ UNCHANGED extra

NextPair == RunItemPair \/ Return

SpecPair == InitPair /\ [][NextPair]_vars

(* ============================== claims ================================= *)

\* the indices of the results recorded so far
Done == 1..Len(results)

\* the log entries of the hardware calls made so far
CallLog == {calls[k] : k \in 1..Len(calls)}

\* C1: run_inspection returns exactly one result per checklist item, in the
\* order of the checklist: at every point of the loop the results recorded
\* are those of the items already visited, the i-th result carries the i-th
\* item's id, the loop can always go on, and the list returned is as long as
\* the checklist, whatever the hardware calls returned or raised.
C1_OneResultPerItemInOrder ==
    /\ pc = "run" => (Len(results) = idx - 1 /\ ENABLED Next)
    /\ \A i \in Done : results[i].item_id = checklist_items[i].id
    /\ pc \in {"returned", "analyzed"} => Len(results) = Len(checklist_items)

\* C1 witness: a returned run over different items in which a hardware call
\* raised and a later item was still recorded
C1_Witness ==
    /\ pc = "returned"
    /\ Len(results) >= 2
    /\ results[1].item_id # results[2].item_id
    /\ \E c \in CallLog : c.raised /\ c.item < Len(results)

\* C2: a hardware call that raises gives that item status 'error' with the
\* exception's text as its error message, and every item whose call had the
\* same outcome in the run where the call does not fail gets the same
\* status (indeed the same result) in both runs; both runs record a result
\* for every item.
C2_FailureIsolated ==
    /\ Len(results2) = Len(results)
    /\ \A c \in CallLog :
         c.raised => /\ results[c.item].status = "error"
                     /\ "error" \in results[c.item].keys
                     /\ results[c.item].error = c.msg
    /\ \A j \in Done \ differ : results[j] = results2[j]
    /\ pc = "returned" => /\ Len(results) = Len(checklist_items)
                          /\ Len(results2) = Len(checklist_items)

\* C2 witness: the first item's call raised in one run and returned in the
\* other, and the second item passed in both
C2_Witness ==
    /\ pc = "returned"
    /\ Len(results) = 2
    /\ differ = {1}
    /\ results[1].status = "error"
    /\ results2[1].status \in {"pass", "warning", "fail"}
    /\ results[2].status = "pass"
    /\ \E c \in CallLog : c.item = 2 /\ ~c.raised

\* C3: a sensor reading the hardware handle reports as unavailable by
\* returning None is recorded with status 'error', whatever the item's
\* thresholds.
C3_UnavailableReadingIsError ==
    \A c \in CallLog :
        (c.fn = "get_sensor_reading" /\ ~c.raised /\ c.val = NoneV)
            => results[c.item].status = "error"

\* C4: for a numeric value, _evaluate_sensor_reading returns 'fail' when a
\* critical bound that is set is strictly violated, otherwise 'warning' when
\* a warning bound that is set is strictly violated, otherwise 'pass'; the
\* status depends on the value and the thresholds alone.
C4_OrderedThresholdRule ==
    LET Below(k) == k \in DOMAIN thresholds /\ value.n < thresholds[k]
        Above(k) == k \in DOMAIN thresholds /\ value.n > thresholds[k]
        critical == Below("min_critical") \/ Above("max_critical")
        warning == Below("min_warning") \/ Above("max_warning")
    IN  (pc = "evaluated" /\ value.t \in {"num", "bool"}) =>
            /\ critical => status = "fail"
            /\ (~critical /\ warning) => status = "warning"
            /\ (~critical /\ ~warning) => status = "pass"
            /\ (\A k \in DOMAIN thresholds : value.n = thresholds[k])
                   => status = "pass"

\* C4 witness: a value below both the lower critical and the lower warning
\* bound, evaluated as 'fail'
C4_Witness ==
    /\ pc = "evaluated"
    /\ value.t = "num"
    /\ DOMAIN thresholds = ThresholdKeys
    /\ value.n < thresholds["min_critical"]
    /\ value.n < thresholds["min_warning"]
    /\ status = "fail"

\* C5: a sensor item that defines no thresholds and whose reading succeeds
\* is recorded with status 'pass' and the raw reading as its value.
C5_NoThresholdsPasses ==
    \A c \in CallLog :
        (/\ c.fn = "get_sensor_reading"
         /\ ~c.raised
         /\ c.val.t \in {"num", "bool"}
         /\ "thresholds" \notin checklist_items[c.item].keys)
            => /\ results[c.item].status = "pass"
               /\ results[c.item].value = c.val

\* C10: a mechanical item whose self-test returns a boolean is recorded with
\* status 'pass' if the boolean is true and 'fail' if it is false, and with
\* the boolean as its value.
C10_MechanicalPassIffTrue ==
    \A c \in CallLog :
        (c.fn = "test_mechanical_component" /\ ~c.raised /\ c.val.t = "bool")
            => /\ results[c.item].value = c.val
               /\ (results[c.item].status = "pass" <=> c.val = Bool(TRUE))
               /\ (results[c.item].status = "fail" <=> c.val = Bool(FALSE))

\* C10 witness: a returned run with a self-test that returned false and one
\* that returned true
C10_Witness ==
    /\ pc = "returned"
    /\ \E c \in CallLog :
         /\ c.fn = "test_mechanical_component"
         /\ c.val = Bool(FALSE)
         /\ ~c.raised
         /\ results[c.item].status = "fail"
    /\ \E c \in CallLog :
         /\ c.fn = "test_mechanical_component"
         /\ c.val = Bool(TRUE)
         /\ results[c.item].status = "pass"

\* the number of results given to analyze that have status s
CountStatus(s) == Cardinality({i \in Done : results[i].status = s})

\* whether some result given to analyze has status s
HasStatus(s) == \E i \in Done : results[i].status = s

\* C6: safety_level is 'critical' iff some result has status 'fail';
\* otherwise 'warning' iff some result has status 'warning'; otherwise
\* 'incomplete' iff some result has status 'error'; otherwise 'safe'; and
\* summary and action_required are the texts of that safety_level.
C6_ClassificationPrecedence ==
    pc = "analyzed" =>
      LET level == analysis.safety_level
      IN  /\ level \in {"critical", "warning", "incomplete", "safe"}
          /\ level = "critical" <=> HasStatus("fail")
          /\ level = "warning" <=> (~HasStatus("fail") /\ HasStatus("warning"))
          /\ level = "incomplete" <=>
               (~HasStatus("fail") /\ ~HasStatus("warning") /\ HasStatus("error"))
          /\ level = "safe" <=>
               (~HasStatus("fail") /\ ~HasStatus("warning") /\ ~HasStatus("error"))
          /\ analysis.summary =
               (CASE level = "critical" -> "UNSAFE - Critical issues detected"
                  [] level = "warning" -> "CAUTION - Warnings detected"
                  [] level = "incomplete" -> "INCOMPLETE - Inspection errors"
                  [] OTHER -> "SAFE - All checks passed")
          /\ analysis.action_required =
               (CASE level = "critical" ->
                       "Immediate maintenance required. Elevator should not be used until fixed."
                  [] level = "warning" ->
                       "Schedule maintenance soon to address warnings."
                  [] level = "incomplete" ->
                       "Some tests failed to complete. Re-inspection recommended."
                  [] OTHER -> "Regular maintenance schedule can be followed.")

\* C6 witness: results with a fail, a warning and an error together,
\* classified 'critical'
C6_Witness ==
    /\ pc = "analyzed"
    /\ HasStatus("fail") /\ HasStatus("warning") /\ HasStatus("error")
    /\ analysis.safety_level = "critical"

\* C6 witness of the third rule: an error and a pass, classified 'incomplete'
C6_WitnessIncomplete ==
    /\ pc = "analyzed"
    /\ HasStatus("error") /\ HasStatus("pass")
    /\ analysis.safety_level = "incomplete"

\* C7: critical_issues, warnings, passed and errors are the numbers of
\* results with status 'fail', 'warning', 'pass' and 'error'; total_checks is
\* the length of the results; a 'skipped' result is counted in total_checks
\* alone, so the four counts and the number skipped add up to total_checks.
C7_CountsMatchStatuses ==
    pc = "analyzed" =>
      /\ analysis.critical_issues = CountStatus("fail")
      /\ analysis.warnings = CountStatus("warning")
      /\ analysis.passed = CountStatus("pass")
      /\ analysis.errors = CountStatus("error")
      /\ analysis.total_checks = Len(results)
      /\ analysis.critical_issues + analysis.warnings + analysis.passed
           + analysis.errors + CountStatus("skipped") = analysis.total_checks

\* C7 witness: results with a skipped and an error result beside a counted one
C7_Witness ==
    /\ pc = "analyzed"
    /\ CountStatus("skipped") = 1
    /\ CountStatus("error") = 1
    /\ analysis.total_checks = 3
    /\ analysis.critical_issues + analysis.warnings + analysis.passed = 1

\* C8: compliance_percentage is passed / (critical_issues + warnings +
\* passed) * 100, errors and skipped results being left out of the
\* denominator; it is 0 when that sum is 0; it is 100 iff passed > 0 and
\* there is neither a fail nor a warning; it lies in 0..100.
C8_CompliancePercentage ==
    pc = "analyzed" =>
      LET cp == analysis.compliance_percentage
          denom == CountStatus("fail") + CountStatus("warning") + CountStatus("pass")
      IN  /\ cp.den > 0
          /\ denom > 0 => cp.num * denom = CountStatus("pass") * 100 * cp.den
          /\ denom = 0 => cp.num = 0
          /\ cp.num = 100 * cp.den <=>
               (/\ CountStatus("pass") > 0
                /\ CountStatus("fail") = 0
                /\ CountStatus("warning") = 0)
          /\ 0 <= cp.num /\ cp.num <= 100 * cp.den

\* C8 witness: a pass beside an error and a skipped result gives 100
C8_Witness ==
    /\ pc = "analyzed"
    /\ CountStatus("pass") = 1
    /\ CountStatus("error") = 1
    /\ CountStatus("skipped") = 1
    /\ analysis.compliance_percentage.num = 100 * analysis.compliance_percentage.den

\* C8 witness of the zero case: only error and skipped results give 0
C8_WitnessZero ==
    /\ pc = "analyzed"
    /\ Len(results) = 2
    /\ CountStatus("error") = 1
    /\ CountStatus("skipped") = 1
    /\ analysis.compliance_percentage.num = 0

\* the results with status s, in input order
WithStatus(s) == SelectSeq(results, LAMBDA r : r.status = s)

\* the list entry analyze makes for a fail or warning result
ValueEntry(r) ==
    [name |-> r.name, value |-> r.value,
     category |-> IF "category" \in r.keys THEN r.category ELSE "general"]

\* the list entry analyze makes for an error result
ErrorEntry(r) ==
    [name |-> r.name,
     error |-> IF "error" \in r.keys THEN r.error ELSE "Unknown error",
     category |-> IF "category" \in r.keys THEN r.category ELSE "general"]

\* C9: critical_items, warning_items and error_items are the results with
\* status 'fail', 'warning' and 'error', in input order, each as an entry of
\* the result's name, its value (for an error result its error message) and
\* its category; each list is as long as the matching count.
C9_ItemListsAreOrderedFilters ==
    pc = "analyzed" =>
      /\ analysis.critical_items =
           [i \in 1..Len(WithStatus("fail")) |-> ValueEntry(WithStatus("fail")[i])]
      /\ analysis.warning_items =
           [i \in 1..Len(WithStatus("warning")) |->
                ValueEntry(WithStatus("warning")[i])]
      /\ analysis.error_items =
           [i \in 1..Len(WithStatus("error")) |-> ErrorEntry(WithStatus("error")[i])]
      /\ Len(analysis.critical_items) = analysis.critical_issues
      /\ Len(analysis.warning_items) = analysis.warnings
      /\ Len(analysis.error_items) = analysis.errors

\* C9 witness: two different fail results with a warning between them
C9_Witness ==
    /\ pc = "analyzed"
    /\ Len(results) = 3
    /\ results[1].status = "fail"
    /\ results[2].status = "warning"
    /\ results[3].status = "fail"
    /\ results[1] # results[3]
    /\ Len(analysis.critical_items) = 2
    /\ analysis.critical_items[1].name = results[1].name
    /\ analysis.critical_items[2].name = results[3].name

\* the hardware handle is an ElevatorInterface that is not connected
Disconnected == hw.kind = "interface" /\ ~hw.connected

\* the hardware calls made for item number i
CallsFor(i) == {k \in 1..Len(calls) : calls[k].item = i}

\* C11: a mechanical self-test that the ElevatorInterface cannot run (it is
\* not connected) gives the item status 'error', not 'fail'; a checklist of
\* mechanical items on such a handle is never analyzed as 'critical'.
C11_UntestableIsError ==
    /\ \A c \in CallLog :
         (c.fn = "test_mechanical_component" /\ Disconnected)
             => results[c.item].status = "error"
    /\ (/\ pc = "analyzed"
        /\ Disconnected
        /\ \A i \in Done : checklist_items[i].type = "mechanical")
           => analysis.safety_level # "critical"

\* C12: a visual item makes no call on the hardware handle and is recorded
\* with status 'pass' and the fixed placeholder value, whatever the handle
\* is and whatever its calls do.
C12_VisualNeverTouchesHardware ==
    \A i \in Done :
        checklist_items[i].type = "visual" =>
            /\ results[i].status = "pass"
            /\ results[i].value = Str("SIMULATED VISUAL INSPECTION")
            /\ "error" \notin results[i].keys
            /\ CallsFor(i) = {}

\* C12 witness: on a handle whose every call so far raised, a visual item
\* recorded after a raising call
C12_Witness ==
    /\ pc = "returned"
    /\ Len(calls) >= 1
    /\ \A c \in CallLog : c.raised
    /\ \E i \in Done :
         /\ checklist_items[i].type = "visual"
         /\ results[i].status = "pass"
         /\ \E c \in CallLog : c.item < i

\* the item types run_inspection knows
KnownTypes == {"sensor", "visual", "mechanical"}

\* C13: an item of a type other than sensor, visual and mechanical is
\* recorded with status 'skipped' and value None, without the key 'error'
\* and without a hardware call; analyze counts it in none of
\* critical_issues, warnings, passed and errors.
C13_UnknownTypeSkipped ==
    /\ \A i \in Done :
         checklist_items[i].type \notin KnownTypes =>
            /\ results[i].status = "skipped"
            /\ results[i].value = NoneV
            /\ "error" \notin results[i].keys
            /\ CallsFor(i) = {}
    /\ pc = "analyzed" =>
         analysis.critical_issues + analysis.warnings + analysis.passed
            + analysis.errors
           = Cardinality({i \in Done : checklist_items[i].type \in KnownTypes})

\* C13 witness: an analyzed run with an item of unknown type beside items of
\* known types
C13_Witness ==
    /\ pc = "analyzed"
    /\ Len(results) = 3
    /\ Cardinality({i \in Done : checklist_items[i].type \notin KnownTypes}) = 1
    /\ analysis.critical_issues + analysis.warnings + analysis.passed
         + analysis.errors = 2

\* some hardware call of the run failed: it raised, or it returned the
\* handle's failure value (None for a reading, False from an
\* ElevatorInterface that is not connected)
Degraded ==
    \E c \in CallLog :
        \/ c.raised
        \/ (c.fn = "get_sensor_reading" /\ c.val = NoneV)
        \/ (c.fn = "test_mechanical_component" /\ Disconnected)

\* C14: an inspection always goes on to a verdict; the verdict's
\* total_checks is the length of the checklist; a run in which a hardware
\* call failed shows it by an 'error' result and a safety_level of
\* 'incomplete' or a more severe one.
C14_AlwaysAVerdict ==
    /\ pc # "analyzed" => ENABLED Next
    /\ pc = "analyzed" =>
         /\ analysis.total_checks = Len(checklist_items)
         /\ Degraded =>
              /\ \E i \in Done : results[i].status = "error"
              /\ analysis.safety_level \in {"incomplete", "warning", "critical"}

\* C15: in every result the key 'error' is present iff the status is
\* 'error', an 'error' result has value None, and the status is one of the
\* five statuses.
C15_ErrorFieldIffErrorStatus ==
    \A i \in Done :
        /\ "error" \in results[i].keys <=> results[i].status = "error"
        /\ results[i].status = "error" => results[i].value = NoneV
        /\ results[i].status \in {"pass", "warning", "fail", "skipped", "error"}

\* C15 witness: a returned run with an error result from a raising call, an
\* error result from a check that raised by itself, and a result that is
\* not an error
C15_Witness ==
    /\ pc = "returned"
    /\ \E i, j, k \in Done :
         /\ results[i].status = "error" /\ results[i].error = "Sensor error"
         /\ results[j].status = "error" /\ results[j].error = "'thresholds'"
         /\ results[k].status = "warning" /\ results[k].value # NoneV

\* C19: the hardware calls of one run are those of the checklist's sensor
\* and mechanical items in checklist order, get_sensor_reading(sensor_id)
\* or test_mechanical_component(component_id), one per item whether it
\* returns or raises, none for any other item; and a call is made only once
\* the results of all earlier items are recorded.
C19_CallsFollowChecklist ==
    /\ [](/\ \A k \in 1..Len(calls) :
               LET item == checklist_items[calls[k].item]
               IN  /\ calls[k].item \in Done
                   /\ item.type \in {"sensor", "mechanical"}
                   /\ item.type = "sensor" =>
                        /\ calls[k].fn = "get_sensor_reading"
                        /\ calls[k].arg = item.sensor_id
                   /\ item.type = "mechanical" =>
                        /\ calls[k].fn = "test_mechanical_component"
                        /\ calls[k].arg = item.component_id
          /\ \A k, l \in 1..Len(calls) : k < l => calls[k].item < calls[l].item
          /\ \A i \in Done :
               Cardinality(CallsFor(i)) =
                 IF checklist_items[i].type \in {"sensor", "mechanical"}
                 THEN 1 ELSE 0)
    /\ [][calls' # calls =>
            /\ Len(calls') = Len(calls) + 1
            /\ SubSeq(calls', 1, Len(calls)) = calls
            /\ calls'[Len(calls')].item = Len(results) + 1]_vars

\* C19 witness: a sensor call that raised, then a visual item, then a
\* self-test: two calls for three items
C19_Witness ==
    /\ pc = "returned"
    /\ Len(results) = 3
    /\ checklist_items[2].type = "visual"
    /\ Len(calls) = 2
    /\ calls[1].fn = "get_sensor_reading" /\ calls[1].raised
    /\ calls[2].fn = "test_mechanical_component" /\ calls[2].item = 3

(* ------- two analyzers with different safety_thresholds, one list ------- *)

\* the safety_thresholds an analyzer is constructed with: the default
\* configuration's, and a more tolerant one
ThresholdConfigs ==
    {DefaultSafetyThresholds, [max_critical_issues |-> 1, max_warnings |-> 0]}

InitVerdict ==
    /\ results \in SeqsUpTo(AnalyzerResults, MaxResults)
    /\ safety_thresholds \in ThresholdConfigs
    /\ safety_thresholds2 \in ThresholdConfigs
    /\ pc = "returned"
    /\ analysis = NoAnalysis
    /\ analysis2 = NoAnalysis
    /\ checklist_items = <<>>
    /\ hw = MockElevator
    /\ idx = 1
    /\ calls = <<>>
    /\ results2 = <<>>
    /\ differ = {}
    /\ value = NoneV
    /\ thresholds = EmptyDict
    /\ status = ""
    /\ interface_config = EmptyDict
    /\ ret = NoReturn
    /\ InitDatabase

\* analysis = analyzer.analyze(results), any number of times
AnalyzeFirst ==
    /\ pc = "returned"
    /\ analysis' = SafetyAnalyzerAnalyze(safety_thresholds, results)
    /\ UNCHANGED <<checklist_items, hw, idx, results, calls, pc,
                   results2, differ, value, thresholds, status>>
    /\ UNCHANGED extra

\* analysis2 = analyzer2.analyze(results), any number of times
AnalyzeSecond ==
    /\ pc = "returned"
    /\ analysis2' = SafetyAnalyzerAnalyze(safety_thresholds2, results)
    /\ UNCHANGED inspvars
    /\ UNCHANGED <<safety_thresholds, safety_thresholds2, ifvars, dbvars>>

NextVerdict == AnalyzeFirst \/ AnalyzeSecond

SpecVerdict == InitVerdict /\ [][NextVerdict]_vars

\* C16: the dictionary analyze returns depends on the results list alone:
\* two analyzers constructed with whatever safety_thresholds return the same
\* dictionary for the same list, a repeated call returns what the first call
\* returned, and a call leaves the results list, the checklist, the hardware
\* handle and the log of hardware calls as they were.
C16_AnalyzeDependsOnResultsOnly ==
    /\ [](analysis # NoAnalysis /\ analysis2 # NoAnalysis => analysis = analysis2)
    /\ [][/\ analysis # NoAnalysis => analysis' = analysis
          /\ analysis2 # NoAnalysis => analysis2' = analysis2
          /\ results' = results
          /\ calls' = calls
          /\ checklist_items' = checklist_items
          /\ hw' = hw]_vars

\* C16 witness: analyzers with different safety_thresholds have both analyzed
\* a list with exactly one failed check and both call it 'critical'
C16_Witness ==
    /\ safety_thresholds # safety_thresholds2
    /\ CountStatus("fail") = 1
    /\ analysis # NoAnalysis
    /\ analysis2 = analysis
    /\ analysis.safety_level = "critical"

(* ------------------- the ElevatorInterface on its own ------------------ *)

\* sensor ids of the default configuration, with their types
SensorTypes ==
    [temp_motor |-> "temperature", door_sensor |-> "door_sensor",
     weight |-> "weight"]

\* hardware_config['sensors']: any of these sensors, each with or without
\* its 'type'
InterfaceConfigs ==
    { [sid \in ids |->
          IF sid \in typed
          THEN [keys |-> {"type"}, type |-> SensorTypes[sid]]
          ELSE [keys |-> {}, type |-> ""]]
      : ids \in SUBSET DOMAIN SensorTypes, typed \in SUBSET DOMAIN SensorTypes }

\* the sensor ids a caller asks for: the configured ones and an unknown one
SensorIds == DOMAIN SensorTypes \cup {"unknown_sensor"}

\* interface = ElevatorInterface(elevator_id, hardware_config)
InitInterface ==
    /\ interface_config \in InterfaceConfigs
    /\ hw = NewElevatorInterface(interface_config)
    /\ ret = NoReturn
    /\ pc = "interface"
    /\ checklist_items = <<>>
    /\ idx = 1
    /\ results = <<>>
    /\ calls = <<>>
    /\ analysis = NoAnalysis
    /\ results2 = <<>>
    /\ differ = {}
    /\ value = NoneV
    /\ thresholds = EmptyDict
    /\ status = ""
    /\ safety_thresholds = DefaultSafetyThresholds
    /\ safety_thresholds2 = DefaultSafetyThresholds
    /\ analysis2 = NoAnalysis
    /\ InitDatabase

\* interface.get_sensor_reading(sensor_id)
InterfaceGetSensorReading ==
    /\ pc = "interface"
    /\ \E sensor_id \in SensorIds :
         \E o \in GetSensorReading(hw, sensor_id) :
            ret' = [op |-> "get_sensor_reading", arg |-> sensor_id, val |-> o.val]
    /\ UNCHANGED <<inspvars, anvars, dbvars, interface_config>>

\* interface.test_mechanical_component(component_id)
InterfaceTestMechanicalComponent ==
    /\ pc = "interface"
    /\ \E component_id \in {"emergency_brake", "door_mechanism"} :
         \E o \in TestMechanicalComponent(hw, component_id) :
            ret' = [op |-> "test_mechanical_component", arg |-> component_id,
                    val |-> o.val]
    /\ UNCHANGED <<inspvars, anvars, dbvars, interface_config>>

\* interface.get_elevator_info(): the 'connected' entry of the dict
InterfaceGetElevatorInfo ==
    /\ pc = "interface"
    /\ ret' = [op |-> "get_elevator_info", arg |-> "", val |-> Bool(hw.connected)]
    /\ UNCHANGED <<inspvars, anvars, dbvars, interface_config>>

\* interface.disconnect()
InterfaceDisconnect ==
    /\ pc = "interface"
    /\ hw' = [hw EXCEPT !.connected = FALSE]
    /\ ret' = [op |-> "disconnect", arg |-> "", val |-> NoneV]
    /\ UNCHANGED <<checklist_items, idx, results, calls, pc, analysis,
                   results2, differ, value, thresholds, status>>
    /\ UNCHANGED <<anvars, dbvars, interface_config>>

NextInterface ==
    \/ InterfaceGetSensorReading
    \/ InterfaceTestMechanicalComponent
    \/ InterfaceGetElevatorInfo
    \/ InterfaceDisconnect

SpecInterface == InitInterface /\ [][NextInterface]_vars

\* every configured sensor is registered with the sensor manager
AllSensorsConnected == DOMAIN hw.connected_sensors = DOMAIN interface_config

\* C20: after construction `connected` is True exactly when every configured
\* sensor was connected; while `connected` is False every get_sensor_reading
\* returns None, for sensors that did connect too, and every
\* test_mechanical_component returns False; and no operation turns
\* `connected` from False to True.
C20_ConnectionAllOrNothing ==
    /\ hw.connected <=> AllSensorsConnected
    /\ [](~hw.connected =>
            /\ ret.op = "get_sensor_reading" => ret.val = NoneV
            /\ ret.op = "test_mechanical_component" => ret.val = Bool(FALSE)
            /\ ret.op = "get_elevator_info" => ret.val = Bool(FALSE))
    /\ [][~hw.connected => ~hw'.connected]_vars

\* C20 witness: one of two configured sensors failed to connect, and a
\* reading asked of the sensor that did connect came back None
C20_Witness ==
    /\ ~AllSensorsConnected
    /\ ~hw.connected
    /\ ret.op = "get_sensor_reading"
    /\ ret.arg \in DOMAIN hw.connected_sensors
    /\ ret.val = NoneV

\* C20 witness of the last part: a fully connected interface after
\* disconnect() refuses a mechanical test
C20_WitnessDisconnected ==
    /\ AllSensorsConnected
    /\ interface_config # EmptyDict
    /\ ~hw.connected
    /\ ret.op = "test_mechanical_component"
    /\ ret.val = Bool(FALSE)

(* --------------------------- InspectionDatabase ------------------------ *)

Quote == "\""

\* json.dumps(value) of a number, a bool or a str (of characters that need
\* no escape)
JsonDumps(v) ==
    CASE v.t = "num" -> ToString(v.n)
      [] v.t = "bool" -> (IF v.n = 1 THEN "true" ELSE "false")
      [] v.t = "str" -> Quote \o v.s \o Quote
      [] OTHER -> "null"

JsonNumbers == (0 - MaxNumber)..MaxNumber

\* json.loads(text): a literal, a quoted string or a numeral, else
\* JSONDecodeError
JsonLoads(text) ==
    IF text = "null" THEN Returned(NoneV)
    ELSE IF text = "true" THEN Returned(Bool(TRUE))
    ELSE IF text = "false" THEN Returned(Bool(FALSE))
    ELSE IF /\ Len(text) >= 2
            /\ SubSeq(text, 1, 1) = Quote
            /\ SubSeq(text, Len(text), Len(text)) = Quote
         THEN Returned(Str(SubSeq(text, 2, Len(text) - 1)))
    ELSE IF \E k \in JsonNumbers : ToString(k) = text
         THEN Returned(Num(CHOOSE k \in JsonNumbers : ToString(k) = text))
    ELSE Raised("Expecting value")

\* SQL NULL, and a TEXT value, of the column inspection_items.value
Null == [null |-> TRUE, text |-> ""]
Text(x) == [null |-> FALSE, text |-> x]

\* a variant that stores NULL for every value Python takes as false
ColumnValueIfTruthy(v) == IF Truthy(v) THEN Text(JsonDumps(v)) ELSE Null

\* json.dumps(result['value']) if result['value'] is not None else None
ColumnValue(v) == IF v.t # "none" THEN Text(JsonDumps(v)) ELSE Null

\* get_inspection's item['value']: a NULL or empty column is left as it is,
\* any other is replaced by json.loads of it unless that raises
ParseColumn(col) ==
    IF col.null THEN NoneV
    ELSE IF col.text = "" THEN Str("")
    ELSE LET r == JsonLoads(col.text)
         IN IF r.raised THEN Str(col.text) ELSE r.val

\* INSERT INTO inspections: the new row's id is one more than the last
\* (AUTOINCREMENT, no row is ever deleted)
InsertInspection(store, an) ==
    [store EXCEPT !.inspections =
        Append(@, [id |-> Len(@) + 1,
                   safety_level |-> an.safety_level,
                   critical_issues |-> an.critical_issues,
                   warnings |-> an.warnings,
                   passed |-> an.passed,
                   compliance_percentage |-> an.compliance_percentage])]

\* INSERT INTO inspection_items for one result
InsertItem(store, inspection_id, result) ==
    [store EXCEPT !.inspection_items =
        Append(@, [inspection_id |-> inspection_id,
                   item_id |-> result.item_id,
                   name |-> result.name,
                   category |-> ResultGet(result, "category", "general"),
                   criticality |-> IF "criticality" \in result.keys
                                   THEN result.criticality ELSE "normal",
                   status |-> result.status,
                   value |-> ColumnValue(result.value)])]

\* the loop `for result in inspection_results`
RECURSIVE InsertItems(_, _, _)
InsertItems(store, inspection_id, rs) ==
    IF rs = <<>>
    THEN store
    ELSE InsertItems(InsertItem(store, inspection_id, Head(rs)),
                     inspection_id, Tail(rs))

\* a variant that leaves the uncommitted rows on the connection
RollbackNothing(working, committed) == working

\* conn.rollback(): the connection sees the committed tables again
Rollback(working, committed) == committed

\* conn.commit(): the connection's tables become the committed ones
Commit(working, committed) == working

\* the statement of save_inspection that raises: 0 for none, 1 for the
\* insert of the inspection row, k + 1 for the insert of the k-th item
FailurePoints(rs) == 0..(Len(rs) + 1)

\* results run_inspection returns, of every kind of value: a reading of 0
\* and one of 30, a failed and a passed mechanical test, an empty text
\* reading, the visual check's text, and an error result (value None)
StoredResults ==
    { Result(MotorTemp, Num(0), "fail"),
      Result(MotorTemp, Num(30), "warning"),
      Result(BrakeTest, Bool(FALSE), "fail"),
      Result(BrakeTest, Bool(TRUE), "pass"),
      Result(CabinTemp, Str(""), "pass"),
      Result(CablesVisual, Str("SIMULATED VISUAL INSPECTION"), "pass"),
      ErrorResult(MotorTemp, "Sensor error") }

\* an analyzed inspection and a new database
InitDatabaseRun ==
    /\ results \in SeqsUpTo(StoredResults, MaxResults)
    /\ analysis = SafetyAnalyzerAnalyze(DefaultSafetyThresholds, results)
    /\ pc = "analyzed"
    /\ InitDatabase
    /\ checklist_items = <<>>
    /\ hw = MockElevator
    /\ idx = 1
    /\ calls = <<>>
    /\ results2 = <<>>
    /\ differ = {}
    /\ value = NoneV
    /\ thresholds = EmptyDict
    /\ status = ""
    /\ safety_thresholds = DefaultSafetyThresholds
    /\ safety_thresholds2 = DefaultSafetyThresholds
    /\ analysis2 = NoAnalysis
    /\ interface_config = EmptyDict
    /\ ret = NoReturn

\* db.save_inspection(elevator_id, results, analysis): the inserts up to the
\* statement that raises, then commit and return the id, or rollback and
\* raise again
SaveInspection ==
    /\ pc = "analyzed"
    /\ saved.call < MaxSaves
    /\ \E fail \in FailurePoints(results) :
         LET main == IF fail = 1 THEN conn ELSE InsertInspection(conn, analysis)
             inspection_id == Len(main.inspections)
             n == CASE fail = 0 -> Len(results)
                    [] fail = 1 -> 0
                    [] OTHER -> fail - 2
             working == InsertItems(main, inspection_id, SubSeq(results, 1, n))
         IN IF fail = 0
            THEN /\ disk' = Commit(working, disk)
                 /\ conn' = Commit(working, disk)
                 /\ saved' = [call |-> saved.call + 1, raised |-> FALSE,
                              id |-> inspection_id, msg |-> ""]
            ELSE /\ conn' = Rollback(working, disk)
                 /\ disk' = disk
                 /\ saved' = [call |-> saved.call + 1, raised |-> TRUE,
                              id |-> 0, msg |-> "database or disk is full"]
    /\ UNCHANGED <<inspvars, anvars, ifvars, fetched>>

\* the rows of inspection_items WHERE inspection_id = id
ItemRows(store, id) ==
    SelectSeq(store.inspection_items, LAMBDA row : row.inspection_id = id)

\* db.get_inspection(inspection_id): fetchone() of an id that has no row is
\* None and dict(None) raises
GetInspection ==
    /\ pc = "analyzed"
    /\ \E inspection_id \in 1..MaxSaves :
         IF inspection_id > Len(conn.inspections)
         THEN fetched' = [raised |-> TRUE, id |-> inspection_id, items |-> <<>>,
                          msg |-> "'NoneType' object is not iterable"]
         ELSE LET rows == ItemRows(conn, inspection_id)
              IN fetched' =
                   [raised |-> FALSE, id |-> inspection_id,
                    items |-> [k \in 1..Len(rows) |->
                                 [rows[k] EXCEPT !.value = ParseColumn(@)]],
                    msg |-> ""]
    /\ UNCHANGED <<inspvars, anvars, ifvars, disk, conn, saved>>

NextDatabase == SaveInspection \/ GetInspection

SpecDatabase == InitDatabaseRun /\ [][NextDatabase]_vars

\* C17: what get_inspection returns as the value of an item is the value
\* that was saved, for numbers (0 too), booleans (False too), strings (the
\* empty one too) and None: the items fetched are the results saved, in
\* order, with equal values.
C17_ValuesRoundTrip ==
    (fetched.id # 0 /\ ~fetched.raised) =>
        /\ Len(fetched.items) = Len(results)
        /\ \A k \in 1..Len(results) :
              /\ fetched.items[k].item_id = results[k].item_id
              /\ fetched.items[k].value = results[k].value

\* C17 witness: an inspection with the values 0, False and the empty string
\* has been saved and fetched
C17_Witness ==
    /\ fetched.id # 0 /\ ~fetched.raised
    /\ {fetched.items[k].value : k \in 1..Len(fetched.items)}
          = {Num(0), Bool(FALSE), Str("")}

\* C17 witness for the absent value: an error result fetched with value None
C17_WitnessNone ==
    /\ fetched.id # 0 /\ ~fetched.raised
    /\ \E k \in 1..Len(fetched.items) :
          fetched.items[k].status = "error" /\ fetched.items[k].value = NoneV

\* the committed rows of inspection `id` are the whole record of `rs`
CompleteRecord(store, id, rs) ==
    LET rows == ItemRows(store, id)
    IN /\ id \in 1..Len(store.inspections)
       /\ store.inspections[id].id = id
       /\ Len(rows) = Len(rs)
       /\ \A k \in 1..Len(rs) : rows[k].item_id = rs[k].item_id

\* C18: a call of save_inspection either raises or returns; one that raises
\* leaves the committed tables as they were, with no uncommitted row on the
\* connection, and one that returns has committed the whole record; either
\* way the results and the analysis in memory are unchanged; so the store
\* never holds an inspection row without all its items, nor an item row of
\* an inspection that has no row.
C18_FailedSaveLeavesNoRecord ==
    /\ [](/\ \A id \in 1..Len(disk.inspections) : CompleteRecord(disk, id, results)
          /\ \A k \in 1..Len(disk.inspection_items) :
                disk.inspection_items[k].inspection_id \in 1..Len(disk.inspections)
          /\ saved.raised => conn = disk)
    /\ [][saved'.call # saved.call =>
            /\ results' = results
            /\ analysis' = analysis
            /\ IF saved'.raised
               THEN disk' = disk /\ conn' = disk
               ELSE /\ Len(disk'.inspections) = Len(disk.inspections) + 1
                    /\ saved'.id = Len(disk'.inspections)
                    /\ CompleteRecord(disk', saved'.id, results)]_vars

\* C18 witness: a save of two or more results has failed after an earlier
\* one succeeded, and the store holds the earlier record alone
C18_Witness ==
    /\ saved.call = 2
    /\ saved.raised
    /\ Len(results) >= 2
    /\ Len(disk.inspections) = 1
    /\ Len(disk.inspection_items) = Len(results)
    /\ conn = disk

(* ------------------ what the verdict 'safe' stands for ----------------- *)

\* C21: whenever no result is a fail, a warning or an error, analyze reports
\* safety_level 'safe' with the summary 'SAFE - All checks passed'; that
\* covers the empty checklist and a checklist of items of unknown type only
\* (all 'skipped'), for which passed is 0 and compliance_percentage is 0.
C21_SafeWithoutAnyPass ==
    (/\ pc = "analyzed"
     /\ ~HasStatus("fail") /\ ~HasStatus("warning") /\ ~HasStatus("error")) =>
        /\ analysis.safety_level = "safe"
        /\ analysis.summary = "SAFE - All checks passed"
        /\ (\A i \in Done : results[i].status = "skipped") =>
              /\ analysis.passed = 0
              /\ analysis.compliance_percentage.num = 0
              /\ analysis.total_checks = Len(results)

\* C21 witness: a checklist of items of unknown type only, every result
\* 'skipped', reported 'safe' with no check passed and compliance 0
C21_Witness ==
    /\ pc = "analyzed"
    /\ Len(results) = Len(checklist_items)
    /\ Len(results) >= 2
    /\ \A i \in Done : results[i].status = "skipped"
    /\ analysis.safety_level = "safe"
    /\ analysis.passed = 0
    /\ analysis.compliance_percentage.num = 0

\* C21 witness of the empty checklist: no result at all, reported 'safe'
C21_WitnessEmpty ==
    /\ pc = "analyzed"
    /\ checklist_items = <<>>
    /\ results = <<>>
    /\ analysis.safety_level = "safe"
    /\ analysis.compliance_percentage.num = 0

(* ------------- run_inspection on checklists with faulty items ---------- *)

\* the checklists: well-formed sensor items (with thresholds, with an empty
\* thresholds mapping, without thresholds) and the faulty items
InitFaulty ==
    /\ InitExtra
    /\ checklist_items \in
          SeqsUpTo({MotorTemp, CabinTemp, DoorOperation} \cup FaultyItems,
                   MaxFaultyItems)
    /\ hw \in Handles
    /\ idx = 1
    /\ results = <<>>
    /\ calls = <<>>
    /\ pc = "run"
    /\ analysis = NoAnalysis
    /\ results2 = <<>>
    /\ differ = {}
    /\ value = NoneV
    /\ thresholds = EmptyDict
    /\ status = ""

\* one iteration of the loop that raises KeyError out of run_inspection,
\* after the item's hardware call if the iteration gets that far: the local
\* `results` is never returned
RaiseOut ==
    /\ pc = "run"
    /\ idx <= Len(checklist_items)
    /\ RaisesOut(checklist_items[idx])
    /\ LET item == checklist_items[idx]
       IN  \E o \in (IF CallsBeforeRaising(item)
                     THEN CallOutcomes(hw, item) ELSE {NoOutcome}) :
             calls' = (IF CallsBeforeRaising(item)
                       THEN LogCall(calls, idx, item, o) ELSE calls)
    /\ pc' = "raised"
    /\ UNCHANGED <<checklist_items, hw, idx, results, analysis, results2,
                   differ, value, thresholds, status>>
    /\ UNCHANGED extra

NextFaulty == RunItem \/ RaiseOut \/ Return \/ DoAnalyze

SpecFaulty == InitFaulty /\ [][NextFaulty]_vars

\* a missing kind-specific key of an item that carries id, name and type
ConfigurationFault(item) ==
    \/ item.type = "sensor" /\ "sensor_id" \notin item.keys
    \/ item.type = "sensor" /\ "thresholds" \notin item.keys
    \/ item.type = "mechanical" /\ "component_id" \notin item.keys

\* the reading of item number i came back and cannot be compared with a bound
NonComparableReading(i) ==
    \E c \in CallLog :
        /\ c.item = i /\ c.fn = "get_sensor_reading"
        /\ ~c.raised /\ ~Comparable(c.val)

\* every item checked so far carries id, name and type and has its result,
\* and a missing kind-specific key is an 'error' result
C22_FaultsAreErrorResults ==
    /\ pc # "raised" => Len(results) = idx - 1
    /\ \A i \in Done :
          /\ ~RaisesOut(checklist_items[i])
          /\ results[i].item_id = checklist_items[i].id
          /\ ConfigurationFault(checklist_items[i]) => results[i].status = "error"

\* a reading that cannot be compared is an 'error' result
C22_NonComparableIsError ==
    \A i \in Done : NonComparableReading(i) => results[i].status = "error"

\* the run raises exactly at an item that lacks 'name', 'type' or 'id'; once
\* it has raised nothing more happens: no return, no analysis
C22_RaisesOutOfTheLoop ==
    /\ (pc = "run" /\ idx <= Len(checklist_items)) => ENABLED NextFaulty
    /\ pc = "raised" =>
          /\ RaisesOut(checklist_items[idx])
          /\ analysis = NoAnalysis
          /\ ~ENABLED NextFaulty
    /\ pc \in {"returned", "analyzed"} =>
          /\ Len(results) = Len(checklist_items)
          /\ \A i \in 1..Len(checklist_items) : ~RaisesOut(checklist_items[i])

\* C22: for an item that carries id, name and type, a missing sensor_id,
\* component_id or thresholds, or a reading that cannot be compared, becomes
\* that item's 'error' result and the run goes on; an item without name,
\* type or id makes run_inspection raise, and then no result is returned,
\* those of the items already checked included.
C22_IsolationNeedsIdNameType ==
    /\ C22_FaultsAreErrorResults
    /\ C22_NonComparableIsError
    /\ C22_RaisesOutOfTheLoop

====
